---- MODULE Spec2Model ----
(***************************************************************************)
(* smart-code-chunker: the token-aware splitter, the record construction   *)
(* of process_file, the shared parser lock, the sequential driver of       *)
(* main.rs and the producer/consumer pipeline around process_file.         *)
(*                                                                         *)
(* Strings are sequences of one-character strings, so that lines(), join,  *)
(* contains, replace and format! are computed, not assumed.                *)
(***************************************************************************)
EXTENDS Integers, Sequences, FiniteSets, TLC

\* ------------------------------------------------------------------ bounds
MaxTextLen == 5
MaxBudget == 3
NumTasks == 3
NumFiles == 2
QueueCap == 1
MaxChunkTokens == 4
MaxSiblings == 5

\* ----------------------------------------------------------------- strings
NL == "\n"

\* The characters of a source text in the model: "x" stands for a piece of
\* text that the tokenizer encodes to one token of its own, NL is a newline.
Alphabet == {"x", NL}

Texts == UNION {[1..k -> Alphabet] : k \in 0..MaxTextLen}

Last(s) == s[Len(s)]

Front(s) == SubSeq(s, 1, Len(s) - 1)

RECURSIVE Flatten(_)
\* concatenation of a sequence of strings
Flatten(ss) == IF ss = <<>> THEN <<>> ELSE Head(ss) \o Flatten(Tail(ss))

RECURSIVE Join(_, _)
\* [String]::join(sep)
Join(ss, sep) ==
  IF ss = <<>> THEN <<>>
  ELSE IF Len(ss) = 1 THEN Head(ss)
  ELSE Head(ss) \o sep \o Join(Tail(ss), sep)

RECURSIVE SplitAcc(_, _, _)
SplitAcc(s, pieces, cur) ==
  IF s = <<>> THEN Append(pieces, cur)
  ELSE IF Head(s) = NL THEN SplitAcc(Tail(s), Append(pieces, cur), <<>>)
  ELSE SplitAcc(Tail(s), pieces, Append(cur, Head(s)))

\* the pieces of s between newlines: k newlines give k + 1 pieces
SplitNL(s) == SplitAcc(s, <<>>, <<>>)

\* str::lines(): the pieces between newlines; the final line ending is
\* optional, so an empty piece after a final newline is not a line.
Lines(s) ==
  LET p == SplitNL(s) IN IF Last(p) = <<>> THEN Front(p) ELSE p

\* --------------------------------------------------------------- tokenizer
RECURSIVE NewlineRuns(_, _)
NewlineRuns(s, inRun) ==
  IF s = <<>> THEN 0
  ELSE IF Head(s) = NL
       THEN (IF inRun THEN 0 ELSE 1) + NewlineRuns(Tail(s), TRUE)
       ELSE NewlineRuns(Tail(s), FALSE)

\* TOKENIZER.encode_with_special_tokens(s).len(): every "x" is a token and
\* every maximal run of newlines is one token (cl100k_base has tokens for
\* "\n", "\n\n", ...), so the count of a joined text is not the sum of the
\* counts of its lines.
TokenCount(s) ==
  Cardinality({i \in 1..Len(s) : s[i] # NL}) + NewlineRuns(s, FALSE)

\* ---------------------------------------------------------------- splitter
\* One sub-chunk of the result: (Text, TokenCount, LineOffset).
SubChunk(t, n, off) == [text |-> t, token_count |-> n, line_offset |-> off]

EmptyAcc ==
  [chunks |-> <<>>, current_chunk_lines |-> <<>>, current_tokens |-> 0,
   current_line_offset |-> 0]

\* the flush that moves the offset on by one, whatever it flushed
Flush_OffsetByOne(acc) ==
  [chunks |-> Append(acc.chunks,
                     SubChunk(Join(acc.current_chunk_lines, <<NL>>),
                              acc.current_tokens, acc.current_line_offset)),
   current_chunk_lines |-> <<>>,
   current_tokens |-> 0,
   current_line_offset |-> acc.current_line_offset + 1]

\* the flush of the accumulator inside the loop (files.rs 156-162)
Flush(acc) ==
  [chunks |-> Append(acc.chunks,
                     SubChunk(Join(acc.current_chunk_lines, <<NL>>),
                              acc.current_tokens, acc.current_line_offset)),
   current_chunk_lines |-> <<>>,
   current_tokens |-> 0,
   current_line_offset |-> acc.current_line_offset + Len(acc.current_chunk_lines)]

\* the condition under which the loop flushes before taking a line
MustFlush(acc, line_len, max_tokens) ==
  /\ acc.current_tokens + line_len + 1 > max_tokens
  /\ acc.current_chunk_lines # <<>>

\* the line is pushed and counted with one token for its newline
PushLine(acc, line, line_len) ==
  [acc EXCEPT !.current_chunk_lines = Append(@, line),
              !.current_tokens = @ + line_len + 1]

\* SplitStep with the line that triggers a flush lost
SplitStep_DropsLine(acc, line, max_tokens) ==
  LET line_len == TokenCount(line) IN
  IF MustFlush(acc, line_len, max_tokens) THEN Flush(acc)
  ELSE PushLine(acc, line, line_len)

\* one iteration of `for line in text.lines()`
SplitStep(acc, line, max_tokens) ==
  LET line_len == TokenCount(line)
      a == IF MustFlush(acc, line_len, max_tokens) THEN Flush(acc) ELSE acc
  IN PushLine(a, line, line_len)

RECURSIVE SplitLoop(_, _, _)
SplitLoop(acc, lines, max_tokens) ==
  IF lines = <<>> THEN acc
  ELSE SplitLoop(SplitStep(acc, Head(lines), max_tokens), Tail(lines), max_tokens)

\* the flush of the remainder after the loop (files.rs 168-174)
FlushRemainder(acc) ==
  IF acc.current_chunk_lines # <<>> THEN Flush(acc).chunks ELSE acc.chunks

split_text_by_token_limit(t, max_tokens) ==
  LET encoded_len == TokenCount(t) IN
  IF encoded_len <= max_tokens THEN << SubChunk(t, encoded_len, 0) >>
  ELSE FlushRemainder(SplitLoop(EmptyAcc, Lines(t), max_tokens))

\* ------------------------------------------------- the splitter on its own
VARIABLES text, max_tokens, sub_chunks, split_done

splitVars == <<text, max_tokens, sub_chunks, split_done>>

SplitInit ==
  /\ text \in Texts
  /\ max_tokens \in 1..MaxBudget
  /\ sub_chunks = <<>>
  /\ split_done = FALSE

SplitCall ==
  /\ ~split_done
  /\ sub_chunks' = split_text_by_token_limit(text, max_tokens)
  /\ split_done' = TRUE
  /\ UNCHANGED <<text, max_tokens>>

\* ------------------------------------------------------ string operations
\* str::contains(pat)
Contains(s, pat) ==
  \E i \in 1..(Len(s) - Len(pat) + 1) : SubSeq(s, i, i + Len(pat) - 1) = pat

RECURSIVE Replace(_, _, _)
\* str::replace(from, to): every non-overlapping match, left to right
Replace(s, from, to) ==
  IF Len(s) < Len(from) THEN s
  ELSE IF SubSeq(s, 1, Len(from)) = from
       THEN to \o Replace(SubSeq(s, Len(from) + 1, Len(s)), from, to)
       ELSE <<Head(s)>> \o Replace(Tail(s), from, to)

RECURSIVE Reverse(_)
\* Vec::reverse
Reverse(ss) == IF ss = <<>> THEN <<>> ELSE Append(Reverse(Tail(ss)), Head(ss))

RECURSIVE TrimStart(_)
TrimStart(s) == IF s # <<>> /\ Head(s) = NL THEN TrimStart(Tail(s)) ELSE s

\* str::trim(): the newline is the only whitespace of the model's texts
Trim(s) == Reverse(TrimStart(Reverse(TrimStart(s))))

Digit(d) == <<"0", "1", "2", "3", "4", "5", "6", "7", "8", "9">>[d + 1]

RECURSIVE Decimal(_)
\* the Display of a usize
Decimal(n) == IF n < 10 THEN <<Digit(n)>> ELSE Append(Decimal(n \div 10), Digit(n % 10))

\* Option: <<>> is None, <<v>> is Some(v)
Some(v) == <<v>>

UnwrapOr(opt, default) == IF opt = <<>> THEN default ELSE opt[1]

\* ------------------------------------------------------------ syntax trees
\* What tree-sitter returns for a source: the nodes in document order, each
\* with its kind, its `name` and `type` fields, its parent and previous
\* sibling (0: none), the row it starts on and its text
\* content[start_byte..end_byte].
Node(kind, name, type, parent, prev, row, txt) ==
  [kind |-> kind, name |-> name, type |-> type, parent |-> parent,
   prev_sibling |-> prev, row |-> row, text |-> txt]

K_source_file == <<"s", "o", "u", "r", "c", "e", "_", "f", "i", "l", "e">>
K_line_comment == <<"l", "i", "n", "e", "_", "c", "o", "m", "m", "e", "n", "t">>
K_mod_item == <<"m", "o", "d", "_", "i", "t", "e", "m">>
K_impl_item == <<"i", "m", "p", "l", "_", "i", "t", "e", "m">>
K_function_item == <<"f", "u", "n", "c", "t", "i", "o", "n", "_", "i", "t", "e", "m">>
K_struct_item == <<"s", "t", "r", "u", "c", "t", "_", "i", "t", "e", "m">>
K_declaration_list == <<"d", "e", "c", "l", "a", "r", "a", "t", "i", "o", "n", "_", "l", "i", "s", "t">>
K_module == <<"m", "o", "d", "u", "l", "e">>
K_class_definition == <<"c", "l", "a", "s", "s", "_", "d", "e", "f", "i", "n", "i", "t", "i", "o", "n">>
K_function_definition == <<"f", "u", "n", "c", "t", "i", "o", "n", "_", "d", "e", "f", "i", "n", "i", "t", "i", "o", "n">>
K_block == <<"b", "l", "o", "c", "k">>

\* mod A { impl B { fn f() {} } }
RustNested ==
  << Node(K_source_file, <<>>, <<>>, 0, 0, 0, <<"x", "x", "x">>),
     Node(K_mod_item, Some(<<"A">>), <<>>, 1, 0, 0, <<"x", "x", "x">>),
     Node(K_declaration_list, <<>>, <<>>, 2, 0, 0, <<"x", "x">>),
     Node(K_impl_item, <<>>, Some(<<"B">>), 3, 0, 0, <<"x", "x">>),
     Node(K_declaration_list, <<>>, <<>>, 4, 0, 0, <<"x">>),
     Node(K_function_item, Some(<<"f">>), <<>>, 5, 0, 0, <<"x">>) >>

\* // c
\* fn g() {
\* }
RustLong ==
  << Node(K_source_file, <<>>, <<>>, 0, 0, 0, <<"x", NL, "x", NL, "x">>),
     Node(K_line_comment, <<>>, <<>>, 1, 0, 0, <<"x">>),
     Node(K_function_item, Some(<<"g">>), <<>>, 1, 2, 1, <<"x", NL, "x">>) >>

\* class C:
\*
\*     def m(self): pass
PyClass ==
  << Node(K_module, <<>>, <<>>, 0, 0, 0, <<"x", NL, NL, "x">>),
     Node(K_class_definition, Some(<<"C">>), <<>>, 1, 0, 0, <<"x", NL, NL, "x">>),
     Node(K_block, <<>>, <<>>, 2, 0, 2, <<"x">>),
     Node(K_function_definition, Some(<<"m">>), <<>>, 3, 0, 2, <<"x">>) >>

\* ---------------------------------------------------------- language drivers
E_rs == <<"r", "s">>
E_py == <<"p", "y">>
E_txt == <<"t", "x", "t">>

\* get_driver(extension): the driver's name, or None
get_driver(extension) ==
  IF extension = E_rs THEN Some("Rust")
  ELSE IF extension = E_py THEN Some("Python")
  ELSE <<>>

\* LanguageDriver::get_query: the node kinds the query captures
get_query(driver) ==
  IF driver = "Rust"
  THEN {K_function_item, K_struct_item, K_impl_item, K_mod_item}
  ELSE {K_function_definition, K_class_definition}

\* LanguageDriver::extract_name
extract_name(driver, node) ==
  IF node.name # <<>> THEN node.name
  ELSE IF driver = "Rust" /\ node.kind = K_impl_item THEN node.type
  ELSE <<>>

RECURSIVE CapturesFrom(_, _, _)
CapturesFrom(tree, kinds, i) ==
  IF i > Len(tree) THEN <<>>
  ELSE (IF tree[i].kind \in kinds THEN <<i>> ELSE <<>>)
         \o CapturesFrom(tree, kinds, i + 1)

\* cursor.matches(..) flattened over its captures: the captured nodes in
\* document order
Captures(tree, kinds) == CapturesFrom(tree, kinds, 1)

\* ------------------------------------------------------- chunk extraction
\* the kinds process_file takes for scopes (files.rs 67-73)
IsScopeKind(kind) ==
  \/ Contains(kind, <<"c", "l", "a", "s", "s">>)
  \/ Contains(kind, <<"f", "u", "n", "c", "t", "i", "o", "n">>)
  \/ Contains(kind, <<"m", "e", "t", "h", "o", "d">>)
  \/ Contains(kind, <<"s", "t", "r", "u", "c", "t">>)
  \/ Contains(kind, <<"i", "m", "p", "l">>)
  \/ Contains(kind, <<"m", "o", "d">>)
  \/ Contains(kind, <<"e", "n", "u", "m">>)

CleanKind(kind) == Replace(Replace(kind, <<"_", "i", "t", "e", "m">>, <<>>), <<"_", "d", "e", "f", "i", "n", "i", "t", "i", "o", "n">>, <<>>)

\* format!("{}({})", clean_kind, name) with name defaulting to "?"
ScopeLabel(driver, p) ==
  CleanKind(p.kind) \o <<"(">> \o UnwrapOr(extract_name(driver, p), <<"?">>) \o <<")">>

RECURSIVE AncestorWalk(_, _, _)
\* the while-let over node.parent(): context_parts, innermost first
AncestorWalk(tree, driver, parent) ==
  IF parent = 0 THEN <<>>
  ELSE LET p == tree[parent] IN
       (IF IsScopeKind(p.kind) THEN <<ScopeLabel(driver, p)>> ELSE <<>>)
         \o AncestorWalk(tree, driver, p.parent)

\* context_parts after context_parts.reverse()
ContextParts(tree, driver, n) == Reverse(AncestorWalk(tree, driver, tree[n].parent))

Context(tree, driver, n) ==
  LET context_parts == ContextParts(tree, driver, n) IN
  IF context_parts = <<>> THEN <<"r", "o", "o", "t">>
  ELSE Join(context_parts, <<" ", ">", " ">>)

RECURSIVE CommentWalk_PastDeclarations(_, _)
\* the walk that does not stop at a sibling that is not a comment
CommentWalk_PastDeclarations(tree, sibling) ==
  IF sibling = 0 THEN <<>>
  ELSE LET sb == tree[sibling] IN
       (IF Contains(sb.kind, <<"c", "o", "m", "m", "e", "n", "t">>)
        THEN <<Trim(sb.text)>> ELSE <<>>)
         \o CommentWalk_PastDeclarations(tree, sb.prev_sibling)

RECURSIVE CommentWalk(_, _)
\* the while-let over node.prev_sibling(): comments, nearest first
CommentWalk(tree, sibling) ==
  IF sibling = 0 THEN <<>>
  ELSE LET sb == tree[sibling] IN
       IF Contains(sb.kind, <<"c", "o", "m", "m", "e", "n", "t">>)
       THEN <<Trim(sb.text)>> \o CommentWalk(tree, sb.prev_sibling)
       ELSE IF Trim(sb.kind) # <<>> THEN <<>>
       ELSE CommentWalk(tree, sb.prev_sibling)

get_preceding_comments(tree, n) ==
  LET comments == CommentWalk(tree, tree[n].prev_sibling) IN
  IF comments = <<>> THEN <<>> ELSE Some(Join(Reverse(comments), <<NL>>))

\* compute_hash: the SHA-256 digest of the content, taken as free of
\* collisions: the digest determines the content and nothing else
compute_hash(content) == [sha256 |-> content]

Min(a, b) == IF a <= b THEN a ELSE b

\* an id that also hashes the path of the file
ChunkId_WithPath(path, sub_text, i) ==
  compute_hash(path \o <<":">> \o sub_text \o <<"-">> \o Decimal(i))

\* the id of sub-chunk i: compute_hash(format!("{}-{}", sub_text, i))
ChunkId(path, sub_text, i) == compute_hash(sub_text \o <<"-">> \o Decimal(i))

\* end_line as files.rs 121-123 computes it
EndLine(original_start_line, line_offset, raw_code) ==
  original_start_line + line_offset + Min(Len(Lines(raw_code)), 1)

\* the ChunkData built for sub-chunk i (0-based) of the capture n
ChunkRecord(path, driver, tree, n, comments, sub, i) ==
  LET node == tree[n]
      raw_code == node.text
      original_start_line == node.row + 1
  IN [id |-> ChunkId(path, sub.text, i),
      file_path |-> path,
      language |-> driver,
      chunk_type |-> node.kind,
      chunk_name |-> UnwrapOr(extract_name(driver, node), <<"a", "n", "o", "n", "y", "m", "o", "u", "s">>),
      context |-> Context(tree, driver, n),
      signature |-> IF Lines(raw_code) = <<>> THEN <<>> ELSE Lines(raw_code)[1],
      comment |-> comments,
      code |-> sub.text,
      start_line |-> original_start_line + sub.line_offset,
      end_line |-> EndLine(original_start_line, sub.line_offset, raw_code),
      token_count |-> sub.token_count]

RECURSIVE SubChunkRecords(_, _, _, _, _, _, _)
\* `for (i, ..) in sub_chunks.into_iter().enumerate()`: the records of the
\* sub-chunks from ordinal i on
SubChunkRecords(path, driver, tree, n, comments, subs, i) ==
  IF subs = <<>> THEN <<>>
  ELSE <<ChunkRecord(path, driver, tree, n, comments, Head(subs), i)>>
         \o SubChunkRecords(path, driver, tree, n, comments, Tail(subs), i + 1)

\* the text handed to the splitter: format!("{}\n{}", comments, raw_code)
FullText(tree, n) ==
  UnwrapOr(get_preceding_comments(tree, n), <<>>) \o <<NL>> \o tree[n].text

\* the records of one capture, in the order of the loop over sub_chunks
ChunkRecords(path, driver, tree, n, max_chunk_tokens) ==
  SubChunkRecords(path, driver, tree, n,
                  UnwrapOr(get_preceding_comments(tree, n), <<>>),
                  split_text_by_token_limit(FullText(tree, n), max_chunk_tokens), 0)

RECURSIVE CaptureRecords(_, _, _, _, _)
CaptureRecords(path, driver, tree, caps, max_chunk_tokens) ==
  IF caps = <<>> THEN <<>>
  ELSE <<ChunkRecords(path, driver, tree, Head(caps), max_chunk_tokens)>>
         \o CaptureRecords(path, driver, tree, Tail(caps), max_chunk_tokens)

\* the records of a file, one sequence per capture, in the order of the
\* loops over matches and captures
FileRecords(path, driver, tree, max_chunk_tokens) ==
  CaptureRecords(path, driver, tree, Captures(tree, get_query(driver)), max_chunk_tokens)

\* ------------------------------------------------------------------ files
\* What a path names: its text (the extension decides the driver), whether
\* fs::read_to_string succeeds, whether the parser returns a tree, and the
\* tree it returns.
FileKind(ext, readable, parses, tree) ==
  [ext |-> ext, readable |-> readable, parses |-> parses, tree |-> tree]

FileKinds ==
  << FileKind(E_rs, TRUE, TRUE, RustNested),
     FileKind(E_rs, TRUE, TRUE, RustLong),
     FileKind(E_py, TRUE, TRUE, PyClass),
     FileKind(E_txt, TRUE, TRUE, RustLong),
     FileKind(E_rs, FALSE, TRUE, RustLong),
     FileKind(E_rs, TRUE, FALSE, RustLong) >>

Stem(i) == <<"a", "b", "c", "d", "e", "f", "g", "h">>[i]

\* the i-th path of the list
PathOf(i, kind) == <<Stem(i), ".">> \o kind.ext

RECURSIVE AfterLastDot(_, _)
AfterLastDot(s, found) ==
  IF s = <<>> THEN found
  ELSE IF Head(s) = "." THEN AfterLastDot(Tail(s), Some(Tail(s)))
  ELSE AfterLastDot(Tail(s), found)

\* path.extension().and_then(OsStr::to_str).unwrap_or(""): the model's paths
\* are lower case, on which to_lowercase changes nothing
Extension(path) == UnwrapOr(AfterLastDot(path, <<>>), <<>>)

FileIds == 1..NumFiles

\* The lists of files of a run. The tasks differ only in the path they are
\* given, so the lists are taken up to the order of their files.
FileLists ==
  { [i \in FileIds |-> FileKinds[c[i]]] :
      c \in { c \in [FileIds -> 1..Len(FileKinds)] :
                \A i, j \in FileIds : i < j => c[i] <= c[j] } }

Budgets == {MaxChunkTokens}

\* What the parse, the query and the loops of process_file yield for file f
\* under the budget of the run: a function of the path, the content and
\* the budget, which a run does not change.
ProcessFileRecords(fs, f, budget) ==
  LET path == PathOf(f, fs[f])
      driver == get_driver(Extension(path))
  IN IF driver = <<>> THEN <<>>
     ELSE FileRecords(path, driver[1], fs[f].tree, budget)

\* --------------------------------------------------------------- pipeline
\* One task per file runs process_file and sends its records into a bounded
\* channel; one writer receives them in arrival order and appends them to
\* the sink. The dispatch, the writer and the closing of the channel are
\* not in the sources and follow the design (sections 4.6, 5 and 7).
VARIABLES files, max_chunk_tokens, extraction, wpc, wresult, wrecs, wpos,
          queue, receiver_alive, closed, writer_pc, output

pipeVars == <<files, max_chunk_tokens, extraction, wpc, wresult, wrecs, wpos,
              queue, receiver_alive, closed, writer_pc, output>>

PipeInit ==
  /\ files \in FileLists
  /\ max_chunk_tokens \in Budgets
  /\ extraction = [f \in FileIds |-> ProcessFileRecords(files, f, max_chunk_tokens)]
  /\ wpc = [f \in FileIds |-> "start"]
  /\ wresult = [f \in FileIds |-> "running"]
  /\ wrecs = [f \in FileIds |-> <<>>]
  /\ wpos = [f \in FileIds |-> <<1, 1>>]
  /\ queue = <<>>
  /\ receiver_alive = TRUE
  /\ closed = FALSE
  /\ writer_pc = "recv"
  /\ output = <<>>

Path(f) == PathOf(f, files[f])

Driver(f) == get_driver(Extension(Path(f)))

\* process_file returns
Return(f, result) ==
  /\ wpc' = [wpc EXCEPT ![f] = "done"]
  /\ wresult' = [wresult EXCEPT ![f] = result]

\* get_driver finds no driver: the file is skipped, process_file is Ok
WorkerNoDriver(f) ==
  /\ wpc[f] = "start"
  /\ Driver(f) = <<>>
  /\ Return(f, "Ok")
  /\ UNCHANGED <<files, max_chunk_tokens, extraction, wrecs, wpos, queue, receiver_alive,
                 closed, writer_pc, output>>

\* fs::read_to_string(path)? fails
WorkerReadError(f) ==
  /\ wpc[f] = "start"
  /\ Driver(f) # <<>>
  /\ ~files[f].readable
  /\ Return(f, "Err")
  /\ UNCHANGED <<files, max_chunk_tokens, extraction, wrecs, wpos, queue, receiver_alive,
                 closed, writer_pc, output>>

\* set_language or parse fails
WorkerParseError(f) ==
  /\ wpc[f] = "start"
  /\ Driver(f) # <<>>
  /\ files[f].readable
  /\ ~files[f].parses
  /\ Return(f, "Err")
  /\ UNCHANGED <<files, max_chunk_tokens, extraction, wrecs, wpos, queue, receiver_alive,
                 closed, writer_pc, output>>

\* the position of the loops once nothing is left to send
Finished(recs, pos) == pos[1] > Len(recs)

\* the position that never moves on after a failed send
NextPos_RetryOnError(recs, pos, sent) ==
  IF sent /\ pos[2] < Len(recs[pos[1]]) THEN <<pos[1], pos[2] + 1>>
  ELSE IF sent THEN <<pos[1] + 1, 1>>
  ELSE pos

\* the position that steps over the next capture
NextPos_SkipsCapture(recs, pos, sent) ==
  IF sent /\ pos[2] < Len(recs[pos[1]]) THEN <<pos[1], pos[2] + 1>>
  ELSE <<pos[1] + 2, 1>>

\* the loops over captures and sub_chunks after a send: the next sub-chunk
\* of the capture, or, at its end or on the break after a failed send, the
\* first sub-chunk of the next capture
NextPos(recs, pos, sent) ==
  IF sent /\ pos[2] < Len(recs[pos[1]]) THEN <<pos[1], pos[2] + 1>>
  ELSE <<pos[1] + 1, 1>>

\* the loops go on from pos, or are over and process_file returns Ok(())
Continue(f, recs, pos) ==
  IF Finished(recs, pos) THEN Return(f, "Ok")
  ELSE /\ wpc' = [wpc EXCEPT ![f] = "send"]
       /\ UNCHANGED wresult

\* the file is read and parsed and the query has run: the records of the
\* file are determined
WorkerExtract(f) ==
  /\ wpc[f] = "start"
  /\ Driver(f) # <<>>
  /\ files[f].readable
  /\ files[f].parses
  /\ LET recs == extraction[f] IN
       /\ wrecs' = [wrecs EXCEPT ![f] = recs]
       /\ Continue(f, recs, wpos[f])
  /\ UNCHANGED <<files, max_chunk_tokens, extraction, wpos, queue, receiver_alive,
                 closed, writer_pc, output>>

\* Sender::send on a bounded channel waits while the channel is full
CanSend(q) == Len(q) < QueueCap

\* tx_sender.send(chunk): the record enters the channel
WorkerSend(f) ==
  /\ wpc[f] = "send"
  /\ receiver_alive
  /\ CanSend(queue)
  /\ queue' = Append(queue, wrecs[f][wpos[f][1]][wpos[f][2]])
  /\ LET pos == NextPos(wrecs[f], wpos[f], TRUE) IN
       /\ wpos' = [wpos EXCEPT ![f] = pos]
       /\ Continue(f, wrecs[f], pos)
  /\ UNCHANGED <<files, max_chunk_tokens, extraction, wrecs, receiver_alive, closed,
                 writer_pc, output>>

\* tx_sender.send(chunk).is_err(): the receiver is gone, break
WorkerSendError(f) ==
  /\ wpc[f] = "send"
  /\ ~receiver_alive
  /\ LET pos == NextPos(wrecs[f], wpos[f], FALSE) IN
       /\ wpos' = [wpos EXCEPT ![f] = pos]
       /\ Continue(f, wrecs[f], pos)
  /\ UNCHANGED <<files, max_chunk_tokens, extraction, wrecs, queue, receiver_alive,
                 closed, writer_pc, output>>

Worker(f) ==
  \/ WorkerNoDriver(f)
  \/ WorkerReadError(f)
  \/ WorkerParseError(f)
  \/ WorkerExtract(f)
  \/ WorkerSend(f)
  \/ WorkerSendError(f)

\* every task has returned and the producers are dropped
CloseQueue ==
  /\ ~closed
  /\ \A f \in FileIds : wpc[f] = "done"
  /\ closed' = TRUE
  /\ UNCHANGED <<files, max_chunk_tokens, extraction, wpc, wresult, wrecs, wpos, queue,
                 receiver_alive, writer_pc, output>>

\* the writer takes the oldest record and appends it to the sink
WriterWrite ==
  /\ writer_pc = "recv"
  /\ queue # <<>>
  /\ output' = Append(output, Head(queue))
  /\ queue' = Tail(queue)
  /\ UNCHANGED <<files, max_chunk_tokens, extraction, wpc, wresult, wrecs, wpos,
                 receiver_alive, closed, writer_pc>>

\* the sink refuses the record: the writer stops and its receiver is dropped
WriterSinkFailure ==
  /\ writer_pc = "recv"
  /\ queue # <<>>
  /\ writer_pc' = "failed"
  /\ receiver_alive' = FALSE
  /\ queue' = <<>>
  /\ UNCHANGED <<files, max_chunk_tokens, extraction, wpc, wresult, wrecs, wpos, closed,
                 output>>

\* the channel is empty and closed: end of stream
WriterEnd ==
  /\ writer_pc = "recv"
  /\ queue = <<>>
  /\ closed
  /\ writer_pc' = "done"
  /\ UNCHANGED <<files, max_chunk_tokens, extraction, wpc, wresult, wrecs, wpos, queue,
                 receiver_alive, closed, output>>

Writer == WriterWrite \/ WriterSinkFailure \/ WriterEnd

\* -------------------------------------------------- shared parser resource
\* ThreadSafeParser::parse (types.rs) and tree_parse (main.rs) are the same
\* operation on one Mutex<Parser>: lock, set_language, reset, parse; the
\* guard is dropped when the function returns, also on the `?` of
\* set_language.
VARIABLES ppc, req_language, holder, parser_language, parser_fresh, parse_result

parseVars == <<ppc, req_language, holder, parser_language, parser_fresh, parse_result>>

Tasks == 1..NumTasks

Languages == {"Rust", "Python"}

None == "None"

ParseInit ==
  /\ ppc = [t \in Tasks |-> "idle"]
  /\ req_language = [t \in Tasks |-> None]
  /\ holder = {}
  /\ parser_language = None
  /\ parser_fresh = TRUE
  /\ parse_result = [t \in Tasks |-> None]

\* a lock that never makes the caller wait
LockAlwaysFree(h) == TRUE

\* Mutex::lock blocks the caller while another guard is alive
LockFree(h) == h = {}

\* a task calls parse(content, language)
ParseCall(t) ==
  /\ ppc[t] = "idle"
  /\ \E l \in Languages : req_language' = [req_language EXCEPT ![t] = l]
  /\ ppc' = [ppc EXCEPT ![t] = "lock"]
  /\ parse_result' = [parse_result EXCEPT ![t] = None]
  /\ UNCHANGED <<holder, parser_language, parser_fresh>>

\* self.parser.lock(): returns the guard once the mutex is free
ParseLock(t) ==
  /\ ppc[t] = "lock"
  /\ LockFree(holder)
  /\ holder' = {t}
  /\ ppc' = [ppc EXCEPT ![t] = "set_language"]
  /\ UNCHANGED <<req_language, parser_language, parser_fresh, parse_result>>

\* parser.set_language(language)?: an incompatible grammar version is an
\* error that returns from the function
ParseSetLanguage(t) ==
  /\ ppc[t] = "set_language"
  /\ \/ /\ parser_language' = req_language[t]
        /\ ppc' = [ppc EXCEPT ![t] = "reset"]
        /\ UNCHANGED parse_result
     \/ /\ parse_result' = [parse_result EXCEPT ![t] = "Err"]
        /\ ppc' = [ppc EXCEPT ![t] = "drop_guard"]
        /\ UNCHANGED parser_language
  /\ UNCHANGED <<req_language, holder, parser_fresh>>

\* parser.reset()
ParseReset(t) ==
  /\ ppc[t] = "reset"
  /\ parser_fresh' = TRUE
  /\ ppc' = [ppc EXCEPT ![t] = "parse"]
  /\ UNCHANGED <<req_language, holder, parser_language, parse_result>>

\* parser.parse(content, None): a tree in the language the parser holds at
\* that moment, or None, which becomes the error
ParseParse(t) ==
  /\ ppc[t] = "parse"
  /\ parser_fresh' = FALSE
  /\ \E r \in {parser_language, "Err"} :
       parse_result' = [parse_result EXCEPT ![t] = r]
  /\ ppc' = [ppc EXCEPT ![t] = "drop_guard"]
  /\ UNCHANGED <<req_language, holder, parser_language>>

\* the function returns and its guard is dropped
ParseReturn(t) ==
  /\ ppc[t] = "drop_guard"
  /\ holder' = holder \ {t}
  /\ ppc' = [ppc EXCEPT ![t] = "idle"]
  /\ UNCHANGED <<req_language, parser_language, parser_fresh, parse_result>>

\* ------------------------------------------------ the sequential driver
\* main.rs walks the files one after the other, on one thread, and appends
\* the records of each file to the output file before it takes the next.

\* get_language_config(ext): the language and the node kinds of its query
get_language_config(ext) ==
  IF ext = E_rs
  THEN Some([lang_type |-> "Rust",
             query_code |-> {K_function_item, K_struct_item, K_impl_item}])
  ELSE IF ext = E_py
  THEN Some([lang_type |-> "Python",
             query_code |-> {K_function_definition, K_class_definition}])
  ELSE <<>>

\* extract_name_from_node
extract_name_from_node(node) ==
  IF node.name # <<>> THEN node.name
  ELSE IF node.kind = K_impl_item THEN node.type
  ELSE <<>>

\* the scope test of find_chunks
IsBreadcrumbKind(kind) ==
  \/ Contains(kind, <<"c", "l", "a", "s", "s">>)
  \/ Contains(kind, <<"s", "t", "r", "u", "c", "t">>)
  \/ Contains(kind, <<"i", "m", "p", "l">>)
  \/ Contains(kind, <<"m", "o", "d">>)

RECURSIVE BreadcrumbWalk(_, _)
\* `while let Some(p) = parent`: the parts pushed from p upwards
BreadcrumbWalk(tree, parent) ==
  IF parent = 0 THEN <<>>
  ELSE LET p == tree[parent]
           name == extract_name_from_node(p)
           part == IF name # <<>>
                   THEN CleanKind(p.kind) \o <<"(">> \o name[1] \o <<")">>
                   ELSE p.kind
       IN (IF IsBreadcrumbKind(p.kind) THEN <<part>> ELSE <<>>)
            \o BreadcrumbWalk(tree, p.parent)

\* context_parts.reverse(), then "root" or the parts joined by " > "
Breadcrumbs(tree, n) ==
  LET context_parts == Reverse(BreadcrumbWalk(tree, tree[n].parent))
  IN IF context_parts = <<>> THEN <<"r", "o", "o", "t">>
     ELSE Join(context_parts, <<" ", ">", " ">>)

\* chunk_text.split_whitespace().count()
SplitWhitespaceCount(s) == Len(SelectSeq(SplitNL(s), LAMBDA piece : piece # <<>>))

\* the ChunkData main builds for the capture n
MainChunkData(path, lang_type, tree, n) ==
  LET node == tree[n]
      chunk_text == node.text
  IN [file_path |-> path,
      language |-> lang_type,
      chunk_type |-> node.kind,
      context |-> Breadcrumbs(tree, n),
      start_line |-> node.row + 1,
      end_line |-> node.row + Len(SplitNL(chunk_text)),
      token_count |-> SplitWhitespaceCount(chunk_text),
      code |-> chunk_text]

RECURSIVE MainChunks(_, _, _, _)
MainChunks(path, lang_type, tree, caps) ==
  IF caps = <<>> THEN <<>>
  ELSE <<MainChunkData(path, lang_type, tree, Head(caps))>>
         \o MainChunks(path, lang_type, tree, Tail(caps))

\* find_chunks on a tree the parser returned, as the records main makes of it
find_chunks(path, config, tree) ==
  MainChunks(path, config.lang_type, tree, Captures(tree, config.query_code))

\* the lists of files the walker yields, in the order it yields them
WalkLists == {[i \in FileIds |-> FileKinds[c[i]]] : c \in [FileIds -> 1..Len(FileKinds)]}

VARIABLES walker, entry, chunks, main_pc, output_file, stderr

mainVars == <<walker, entry, chunks, main_pc, output_file, stderr>>

MainInit ==
  /\ walker \in WalkLists
  /\ entry = 1
  /\ chunks = <<>>
  /\ main_pc = "walk"
  /\ output_file = <<>>
  /\ stderr = <<>>

EntryPath == PathOf(entry, walker[entry])

EntryConfig == get_language_config(Extension(EntryPath))

\* get_language_config(ext) is None: the entry is passed over in silence
MainNoConfig ==
  /\ main_pc = "walk"
  /\ entry <= Len(walker)
  /\ EntryConfig = <<>>
  /\ entry' = entry + 1
  /\ UNCHANGED <<walker, chunks, main_pc, output_file, stderr>>

\* fs::read_to_string fails: eprintln! and continue
MainReadError ==
  /\ main_pc = "walk"
  /\ entry <= Len(walker)
  /\ EntryConfig # <<>>
  /\ ~walker[entry].readable
  /\ stderr' = Append(stderr, EntryPath)
  /\ entry' = entry + 1
  /\ UNCHANGED <<walker, chunks, main_pc, output_file>>

\* `find_chunks(..)?`: tree_parse fails and main returns the error
MainParseError ==
  /\ main_pc = "walk"
  /\ entry <= Len(walker)
  /\ EntryConfig # <<>>
  /\ walker[entry].readable
  /\ ~walker[entry].parses
  /\ main_pc' = "parse_error"
  /\ stderr' = Append(stderr, EntryPath)
  /\ UNCHANGED <<walker, entry, chunks, output_file>>

\* find_chunks returns the chunks of the entry; with none of them the loop
\* over the chunks is over at once
MainFindChunks ==
  /\ main_pc = "walk"
  /\ entry <= Len(walker)
  /\ EntryConfig # <<>>
  /\ walker[entry].readable
  /\ walker[entry].parses
  /\ LET found == find_chunks(EntryPath, EntryConfig[1], walker[entry].tree) IN
       /\ chunks' = found
       /\ IF found = <<>>
          THEN entry' = entry + 1 /\ UNCHANGED main_pc
          ELSE main_pc' = "write" /\ UNCHANGED entry
  /\ UNCHANGED <<walker, output_file, stderr>>

\* writeln!(output_file, ..) of the next chunk; after the last one the
\* walk goes on
MainWrite ==
  /\ main_pc = "write"
  /\ output_file' = Append(output_file, Head(chunks))
  /\ chunks' = Tail(chunks)
  /\ IF Tail(chunks) = <<>>
     THEN entry' = entry + 1 /\ main_pc' = "walk"
     ELSE UNCHANGED <<entry, main_pc>>
  /\ UNCHANGED <<walker, stderr>>

\* writeln! fails and main returns the error
MainWriteError ==
  /\ main_pc = "write"
  /\ main_pc' = "write_error"
  /\ UNCHANGED <<walker, entry, chunks, output_file, stderr>>

\* the walker is exhausted: main returns Ok(())
MainReturn ==
  /\ main_pc = "walk"
  /\ entry > Len(walker)
  /\ main_pc' = "ok"
  /\ UNCHANGED <<walker, entry, chunks, output_file, stderr>>

\* ------------------------------------------- the extraction on its own
\* The body of process_file on one parsed Rust file whose root holds a row
\* of line comments and functions: the comments, the split and the records
\* of every captured node.

\* what a child of the root can be: a line comment (the text of one of them
\* ends with the line break, which trim removes) or a function, of one
\* line or of three with a blank one
SiblingForms ==
  { [kind |-> K_line_comment, name |-> <<>>, text |-> <<"a">>],
    [kind |-> K_line_comment, name |-> <<>>, text |-> <<"b", NL>>],
    [kind |-> K_function_item, name |-> Some(<<"f">>), text |-> <<"x">>],
    [kind |-> K_function_item, name |-> Some(<<"g">>), text |-> <<"x", NL, NL, "x">>] }

RECURSIVE RowOf(_, _)
\* the row the i-th child starts on: the children follow each other line
\* by line
RowOf(forms, i) ==
  IF i = 1 THEN 0 ELSE RowOf(forms, i - 1) + Len(Lines(forms[i - 1].text))

\* the tree of a file whose root has these children: node 1 is the root,
\* node i + 1 the i-th child
SiblingTree(forms) ==
  << Node(K_source_file, <<>>, <<>>, 0, 0, 0, Join([i \in 1..Len(forms) |-> Trim(forms[i].text)], <<NL>>)) >>
    \o [i \in 1..Len(forms) |->
          Node(forms[i].kind, forms[i].name, <<>>, 1, IF i = 1 THEN 0 ELSE i,
               RowOf(forms, i), forms[i].text)]

SiblingTrees ==
  UNION {{SiblingTree(forms) : forms \in [1..k -> SiblingForms]} : k \in 1..MaxSiblings}

ExtractPath == <<"a", ".">> \o E_rs

RECURSIVE CaptureSplits(_, _, _)
\* the sub_chunks of every capture, in the order of the captures
CaptureSplits(file_tree, caps, max_chunk_toks) ==
  IF caps = <<>> THEN <<>>
  ELSE <<split_text_by_token_limit(FullText(file_tree, Head(caps)), max_chunk_toks)>>
         \o CaptureSplits(file_tree, Tail(caps), max_chunk_toks)

VARIABLES parsed_tree, token_budget, capture_splits, capture_records, extract_done

extractVars == <<parsed_tree, token_budget, capture_splits, capture_records, extract_done>>

ExtractInit ==
  /\ parsed_tree \in SiblingTrees
  /\ token_budget \in 1..MaxChunkTokens
  /\ capture_splits = <<>>
  /\ capture_records = <<>>
  /\ extract_done = FALSE

ExtractIdle ==
  /\ parsed_tree = <<>>
  /\ token_budget = 1
  /\ capture_splits = <<>>
  /\ capture_records = <<>>
  /\ extract_done = FALSE

\* the loops of process_file over the matches of the query
ExtractCall ==
  /\ ~extract_done
  /\ capture_splits' = CaptureSplits(parsed_tree, Captures(parsed_tree, get_query("Rust")), token_budget)
  /\ capture_records' = FileRecords(ExtractPath, "Rust", parsed_tree, token_budget)
  /\ extract_done' = TRUE
  /\ UNCHANGED <<parsed_tree, token_budget>>

\* ---------------------------------------------------------- specifications
vars == <<splitVars, parseVars, pipeVars, mainVars, extractVars>>

SplitIdle ==
  /\ text = <<>>
  /\ max_tokens = 1
  /\ sub_chunks = <<>>
  /\ split_done = FALSE

PipeIdle ==
  /\ files = <<>>
  /\ max_chunk_tokens = 1
  /\ extraction = <<>>
  /\ wpc = <<>>
  /\ wresult = <<>>
  /\ wrecs = <<>>
  /\ wpos = <<>>
  /\ queue = <<>>
  /\ receiver_alive = TRUE
  /\ closed = FALSE
  /\ writer_pc = "recv"
  /\ output = <<>>

MainIdle ==
  /\ walker = <<>>
  /\ entry = 1
  /\ chunks = <<>>
  /\ main_pc = "walk"
  /\ output_file = <<>>
  /\ stderr = <<>>

SplitNext == SplitCall /\ UNCHANGED <<parseVars, pipeVars, mainVars, extractVars>>

InitSplit == SplitInit /\ ParseInit /\ PipeIdle /\ MainIdle /\ ExtractIdle

\* the splitter applied to every text and budget within the bounds
SpecSplit == InitSplit /\ [][SplitNext]_vars

ParserNext ==
  \E t \in Tasks :
    \/ ParseCall(t) /\ UNCHANGED <<splitVars, pipeVars, mainVars, extractVars>>
    \/ ParseLock(t) /\ UNCHANGED <<splitVars, pipeVars, mainVars, extractVars>>
    \/ ParseSetLanguage(t) /\ UNCHANGED <<splitVars, pipeVars, mainVars, extractVars>>
    \/ ParseReset(t) /\ UNCHANGED <<splitVars, pipeVars, mainVars, extractVars>>
    \/ ParseParse(t) /\ UNCHANGED <<splitVars, pipeVars, mainVars, extractVars>>
    \/ ParseReturn(t) /\ UNCHANGED <<splitVars, pipeVars, mainVars, extractVars>>

InitParse == ParseInit /\ SplitIdle /\ PipeIdle /\ MainIdle /\ ExtractIdle

\* tasks calling the shared parser concurrently
SpecParse == InitParse /\ [][ParserNext]_vars

Next ==
  \/ \E f \in FileIds :
       \/ WorkerNoDriver(f) /\ UNCHANGED <<splitVars, parseVars, mainVars, extractVars>>
       \/ WorkerReadError(f) /\ UNCHANGED <<splitVars, parseVars, mainVars, extractVars>>
       \/ WorkerParseError(f) /\ UNCHANGED <<splitVars, parseVars, mainVars, extractVars>>
       \/ WorkerExtract(f) /\ UNCHANGED <<splitVars, parseVars, mainVars, extractVars>>
       \/ WorkerSend(f) /\ UNCHANGED <<splitVars, parseVars, mainVars, extractVars>>
       \/ WorkerSendError(f) /\ UNCHANGED <<splitVars, parseVars, mainVars, extractVars>>
  \/ CloseQueue /\ UNCHANGED <<splitVars, parseVars, mainVars, extractVars>>
  \/ WriterWrite /\ UNCHANGED <<splitVars, parseVars, mainVars, extractVars>>
  \/ WriterSinkFailure /\ UNCHANGED <<splitVars, parseVars, mainVars, extractVars>>
  \/ WriterEnd /\ UNCHANGED <<splitVars, parseVars, mainVars, extractVars>>

Init == PipeInit /\ SplitIdle /\ ParseInit /\ MainIdle /\ ExtractIdle

\* the pipeline over every list of files and budget within the bounds
Spec == Init /\ [][Next]_vars

\* the pipeline with every task and the writer scheduled while they can run
FairSpec ==
  /\ Spec
  /\ \A f \in FileIds : WF_vars(Worker(f) /\ UNCHANGED <<splitVars, parseVars, mainVars, extractVars>>)
  /\ WF_vars(CloseQueue /\ UNCHANGED <<splitVars, parseVars, mainVars, extractVars>>)
  /\ WF_vars(Writer /\ UNCHANGED <<splitVars, parseVars, mainVars, extractVars>>)

MainNext ==
  \/ MainNoConfig /\ UNCHANGED <<splitVars, parseVars, pipeVars, extractVars>>
  \/ MainReadError /\ UNCHANGED <<splitVars, parseVars, pipeVars, extractVars>>
  \/ MainParseError /\ UNCHANGED <<splitVars, parseVars, pipeVars, extractVars>>
  \/ MainFindChunks /\ UNCHANGED <<splitVars, parseVars, pipeVars, extractVars>>
  \/ MainWrite /\ UNCHANGED <<splitVars, parseVars, pipeVars, extractVars>>
  \/ MainWriteError /\ UNCHANGED <<splitVars, parseVars, pipeVars, extractVars>>
  \/ MainReturn /\ UNCHANGED <<splitVars, parseVars, pipeVars, extractVars>>

InitMain == MainInit /\ SplitIdle /\ ParseInit /\ PipeIdle /\ ExtractIdle

\* main.rs over every list of files within the bounds
SpecMain == InitMain /\ [][MainNext]_vars

ExtractNext == ExtractCall /\ UNCHANGED <<splitVars, parseVars, pipeVars, mainVars>>

InitExtract == ExtractInit /\ SplitIdle /\ ParseInit /\ PipeIdle /\ MainIdle

\* the extraction applied to every tree and budget within the bounds
SpecExtract == InitExtract /\ [][ExtractNext]_vars

\* --------------------------------------------------- claims on the parser
InParser == {t \in Tasks : ppc[t] \in {"set_language", "reset", "parse", "drop_guard"}}

\* C3: at most one task is between taking the lock and dropping the guard
\* (set language, reset, parse) at any instant, that task is the holder of
\* the lock, and every other request is still waiting on the lock.
C3_OneParseAtATime ==
  /\ Cardinality(InParser) <= 1
  /\ \A t \in InParser : holder = {t}

\* C3 witness: a task is parsing while another request waits on the lock.
C3_Witness ==
  \E t, u \in Tasks : t # u /\ ppc[t] = "parse" /\ ppc[u] = "lock"

\* ------------------------------------------------ claims on the splitter
ChunkTexts == [i \in 1..Len(sub_chunks) |-> sub_chunks[i].text]

\* a sub-chunk that is one line whose own token count exceeds the budget
SingleLineOverflow(c) ==
  /\ \A i \in 1..Len(c.text) : c.text[i] # NL
  /\ TokenCount(c.text) > max_tokens

\* C1: every sub-chunk returned by split_text_by_token_limit has
\* token_count <= max_tokens, except a sub-chunk that is exactly one line
\* whose own token count exceeds max_tokens.
C1_TokenBudgetConformance ==
  split_done =>
    \A i \in 1..Len(sub_chunks) :
      \/ sub_chunks[i].token_count <= max_tokens
      \/ SingleLineOverflow(sub_chunks[i])

\* The same bound on the measured size of each sub-chunk's text instead of
\* the recorded token_count (what C1 would say were token_count measured).
MeasuredBudgetConformance ==
  split_done =>
    \A i \in 1..Len(sub_chunks) :
      \/ TokenCount(sub_chunks[i].text) <= max_tokens
      \/ SingleLineOverflow(sub_chunks[i])

\* C2 as stated: the concatenation of the sub-chunk texts, in the order
\* returned, is the original text.
C2_ConcatReconstructsText ==
  split_done => Flatten(ChunkTexts) = text

\* the text without its final line ending
StripFinalNewline(s) == IF s # <<>> /\ Last(s) = NL THEN Front(s) ELSE s

\* C2 amended: a text within budget is returned unchanged as one sub-chunk;
\* otherwise the sub-chunk texts joined by one newline between consecutive
\* sub-chunks are the text without its final line ending, so that no line
\* is dropped, duplicated or reordered.
C2_JoinReconstructsLines ==
  split_done =>
    IF TokenCount(text) <= max_tokens
    THEN ChunkTexts = <<text>>
    ELSE /\ Join(ChunkTexts, <<NL>>) = StripFinalNewline(text)
         /\ Flatten([i \in 1..Len(sub_chunks) |-> SplitNL(sub_chunks[i].text)])
              = Lines(text)

\* C2 witness: an over-budget text was split into several sub-chunks, one
\* of them holding more than one line.
C2_Witness ==
  /\ split_done
  /\ Len(sub_chunks) >= 2
  /\ \E i \in 1..Len(sub_chunks) : Len(SplitNL(sub_chunks[i].text)) >= 2

\* C8: token_count of every sub-chunk equals the tokenizer-measured number
\* of tokens of that sub-chunk's own text.
C8_TokenCountIsMeasured ==
  split_done =>
    \A i \in 1..Len(sub_chunks) :
      sub_chunks[i].token_count = TokenCount(sub_chunks[i].text)

\* ------------------------------------------------- claims on the pipeline
IsPrefix(a, b) == Len(a) <= Len(b) /\ SubSeq(b, 1, Len(a)) = a

\* the records of file f in the writer's output, in output order
FileOutput(f) == SelectSeq(output, LAMBDA r : r.file_path = Path(f))

AllReturned == \A f \in FileIds : wpc[f] = "done"

\* Done: the producers are dropped, the channel is drained and the writer
\* has seen the end of the stream
Done == AllReturned /\ closed /\ queue = <<>> /\ writer_pc = "done"

RunOver == AllReturned /\ closed /\ (Done \/ writer_pc = "failed")

Ids(recs) == [i \in 1..Len(recs) |-> recs[i].id]

\* the ids of the records process_file built for file f, in sending order
FileIdsOf(f) == Ids(Flatten(wrecs[f]))

\* C7: ids are a function of the content and the budget alone: two files
\* of the same content under different paths, processed in one run under
\* any interleaving with the other tasks, yield the same sequence of ids.
C7_IdsDependOnContentOnly ==
  \A f, g \in FileIds :
    (files[f] = files[g] /\ wpc[f] = "done" /\ wpc[g] = "done")
      => FileIdsOf(f) = FileIdsOf(g)

\* C7 witness: two tasks have returned whose paths differ and hold the same
\* content, a logical chunk of which was split into several sub-chunks,
\* and all their records went to the output.
C7_Witness ==
  /\ Done
  /\ \E f, g \in FileIds :
       /\ f # g
       /\ Path(f) # Path(g)
       /\ files[f] = files[g]
       /\ \E k \in 1..Len(wrecs[f]) : Len(wrecs[f][k]) >= 2
       /\ Len(FileOutput(f)) = Len(Flatten(wrecs[f]))

\* C9: end_line of every emitted record is start_line + n - 1, where n is
\* the number of lines of the record's code.
C9_EndLineFromLineCount ==
  \A i \in 1..Len(output) :
    output[i].end_line = output[i].start_line + Len(Lines(output[i].code)) - 1

RECURSIVE PathFromRoot(_, _)
\* the ancestors of a node, outermost first
PathFromRoot(tree, n) ==
  IF tree[n].parent = 0 THEN <<>>
  ELSE Append(PathFromRoot(tree, tree[n].parent), tree[n].parent)

\* the labels kind(name) of the ancestors the test holds of, from the root
\* down, joined by " > ", or "root" without any
LabelsFromRoot(tree, driver, n, IsScope(_)) ==
  LET scopes == SelectSeq(PathFromRoot(tree, n), LAMBDA a : IsScope(tree[a].kind))
      labels == [i \in 1..Len(scopes) |-> ScopeLabel(driver, tree[scopes[i]])]
  IN IF scopes = <<>> THEN <<"r", "o", "o", "t">> ELSE Join(labels, <<" ", ">", " ">>)

\* the node of the k-th logical chunk of file f
CaptureNode(f, k) == Captures(files[f].tree, get_query(Driver(f)[1]))[k]

\* the kinds of the sample trees that denote a named scope: modules,
\* implementations, routines, structures and containers; not the root of
\* a file, not a body
DenotesNamedScope(kind) ==
  kind \in {K_mod_item, K_impl_item, K_function_item, K_struct_item,
            K_class_definition, K_function_definition}

\* C10: the context of every record is the labels kind(name) of the
\* ancestors of its node that denote named scopes, outermost to innermost,
\* joined by " > ", and exactly "root" when no ancestor denotes a scope.
C10_ContextOutermostFirst ==
  \A f \in FileIds :
    \A k \in 1..Len(wrecs[f]) :
      \A i \in 1..Len(wrecs[f][k]) :
        wrecs[f][k][i].context =
          LabelsFromRoot(files[f].tree, Driver(f)[1], CaptureNode(f, k), DenotesNamedScope)

\* the same with the ancestors the substring test of process_file holds of:
\* the order is outermost first
ContextOfMatchedKindsOutermostFirst ==
  \A f \in FileIds :
    \A k \in 1..Len(wrecs[f]) :
      \A i \in 1..Len(wrecs[f][k]) :
        wrecs[f][k][i].context =
          LabelsFromRoot(files[f].tree, Driver(f)[1], CaptureNode(f, k), IsScopeKind)

\* --------------------------------------- claims on the sequential driver
\* what the output file holds for the i-th file
WrittenFor(i) == SelectSeq(output_file, LAMBDA r : r.file_path = PathOf(i, walker[i]))

\* what the i-th file has to contribute: nothing when it has no language,
\* cannot be read or does not parse, the chunks found in it otherwise
Contribution(i) ==
  LET path == PathOf(i, walker[i])
      config == get_language_config(Extension(path))
  IN IF config = <<>> \/ ~walker[i].readable \/ ~walker[i].parses THEN <<>>
     ELSE find_chunks(path, config[1], walker[i].tree)

\* C6: unless the sink failed, a run that is over has emitted the records
\* of every file of the list and none for a file that is unsupported,
\* unreadable or unparseable, and has reported no unsupported file as an
\* error.
C6_FileErrorsDoNotAbort ==
  main_pc \in {"ok", "parse_error"} =>
    /\ \A i \in FileIds : WrittenFor(i) = Contribution(i)
    /\ \A i \in FileIds :
         get_language_config(Extension(PathOf(i, walker[i]))) = <<>>
           => \A k \in 1..Len(stderr) : stderr[k] # PathOf(i, walker[i])

\* ------------------------------------------------ claims on the extraction
\* the nodes the query captures in the parsed tree, in document order
ExtractCaptures == Captures(parsed_tree, get_query("Rust"))

IsComment(file_tree, i) == file_tree[i].kind = K_line_comment

\* the children of the root that precede node n without a break: from the
\* child after the last one before n that is not a comment, up to n - 1
RunBefore(file_tree, n) ==
  LET stops == {i \in 2..(n - 1) : ~IsComment(file_tree, i)}
      first == IF stops = {} THEN 2 ELSE (CHOOSE i \in stops : \A j \in stops : j <= i) + 1
  IN [k \in 1..(n - first) |-> first + k - 1]

\* the comment block of node n read off the tree in source order
ExpectedComment(file_tree, n) ==
  LET run == RunBefore(file_tree, n) IN
  Join([k \in 1..Len(run) |-> Trim(file_tree[run[k]].text)], <<NL>>)

\* C11: get_preceding_comments returns exactly the maximal run of comment
\* siblings immediately before the node, in source order, joined by
\* newlines, with nothing from before the nearest preceding sibling that is
\* not a comment, and None without such a run, for which the comment of
\* the record is the empty string.
C11_CommentsAreTheRunBefore ==
  extract_done =>
    \A k \in 1..Len(ExtractCaptures) :
      LET n == ExtractCaptures[k]
          run == RunBefore(parsed_tree, n)
          expected == ExpectedComment(parsed_tree, n)
      IN /\ get_preceding_comments(parsed_tree, n) =
              (IF run = <<>> THEN <<>> ELSE Some(expected))
         /\ \A i \in 1..Len(capture_records[k]) :
              capture_records[k][i].comment = expected

\* C11 witness: a function with two comments before it, after an earlier
\* function with a comment of its own, has the two as its comment, and the
\* earlier comment is on the earlier function's record.
C11_Witness ==
  /\ extract_done
  /\ Len(ExtractCaptures) = 2
  /\ capture_records[1][1].comment = <<"b">>
  /\ capture_records[2][1].comment = <<"a", NL, "b">>

\* the offset at which the lines of sub-chunk i end: the offset recorded
\* for the next sub-chunk, or for the last one the number of lines
EndOffset(subs, i, lines) ==
  IF i < Len(subs) THEN subs[i + 1].line_offset ELSE Len(lines)

\* C12: in the split of a logical chunk the first offset is 0 and the
\* offset of every sub-chunk is the number of lines held by the sub-chunks
\* before it: the sub-chunk of an over-budget text is the lines of the text
\* from its offset up to the next offset, at least one of them; and the
\* start_line of each record is the start line of the node plus the offset.
C12_OffsetsCountLinesBefore ==
  extract_done =>
    \A k \in 1..Len(ExtractCaptures) :
      LET n == ExtractCaptures[k]
          full_text == FullText(parsed_tree, n)
          lines == Lines(full_text)
          subs == capture_splits[k]
          recs == capture_records[k]
      IN /\ subs # <<>>
         /\ subs[1].line_offset = 0
         /\ Len(recs) = Len(subs)
         /\ TokenCount(full_text) > token_budget =>
              \A i \in 1..Len(subs) :
                /\ subs[i].line_offset < EndOffset(subs, i, lines)
                /\ subs[i].text =
                     Join(SubSeq(lines, subs[i].line_offset + 1, EndOffset(subs, i, lines)), <<NL>>)
         /\ \A i \in 1..Len(recs) :
              recs[i].start_line = parsed_tree[n].row + 1 + subs[i].line_offset

\* C12 witness: a logical chunk was split into three sub-chunks or more,
\* the first of which holds two lines or more, and a logical chunk within
\* the budget was left whole.
C12_Witness ==
  /\ extract_done
  /\ \E k \in 1..Len(capture_splits) :
       /\ Len(capture_splits[k]) >= 3
       /\ capture_splits[k][2].line_offset >= 2
       /\ capture_records[k][3].start_line > capture_records[k][2].start_line
  /\ \E k \in 1..Len(capture_splits) :
       /\ Len(capture_splits[k]) = 1
       /\ TokenCount(capture_splits[k][1].text) <= token_budget

====
